---- MODULE Spec2Model ----
(***************************************************************************)
(* Model of the emissions trend analysis of greenpulse                     *)
(* (src/src/analysis/emissions_analysis.py, class EmissionsAnalyzer).      *)
(*                                                                         *)
(* A DataFrame is a sequence of rows [idx, year, emissions_MtCO2e]; idx is *)
(* the index label of the row, which sort_values keeps with the row.       *)
(* A float is an exact fraction <<n, d>> with d >= 0 in lowest terms;      *)
(* d = 0 stands for the IEEE values a division by zero produces:           *)
(* <<1,0>> = +inf, <<-1,0>> = -inf, <<0,0>> = NaN.  Rounding of binary     *)
(* floating point is not modelled.                                         *)
(*                                                                         *)
(* The second part models the web API of the same repository (app/api/):   *)
(* the auth, companies and users routes over the two tables.               *)
(***************************************************************************)
EXTENDS Integers, Sequences, FiniteSets, Bags, TLC

VARIABLES caller_df, self_df, metrics, patterns, forecast, report, recalled,
          bundle

\* The web API (app/): the two tables, their id sequences, the tokens
\* issued so far, the module-level set of auth.py and the last response.
VARIABLES companies, users, sequences, tokens, revoked_tokens, response

\* The bag of create requests that have passed their checks and not yet
\* committed (one per worker of the server).
VARIABLE pending

\* The command line (run_analysis.py, main.py analyze): the emissions file
\* on disk, the entry point that ran, what the analysis did and what the
\* entry point handed back.
VARIABLE cli

analyzer_vars ==
    <<caller_df, self_df, metrics, patterns, forecast, report, recalled, bundle>>

api_vars ==
    <<companies, users, sequences, tokens, revoked_tokens, response, pending>>

vars == <<analyzer_vars, api_vars, cli>>

(***************************************************************************)
(* Bounds of the model.                                                    *)
(***************************************************************************)
MaxLen == 2
MaxVal == 2
MaxAhead == 2

\* 2013 - 10 = 2003 keeps 2003 and drops 2002; 2012 - 10 = 2002 keeps 2002.
Years == {2002, 2003, 2012, 2013}

(***************************************************************************)
(* Float arithmetic (numpy float64 scalars: a division by zero gives inf   *)
(* or NaN and a warning, it does not raise).                               *)
(***************************************************************************)
Abs(n) == IF n < 0 THEN -n ELSE n

Sign(n) == IF n < 0 THEN -1 ELSE IF n > 0 THEN 1 ELSE 0

RECURSIVE GCD(_, _)
GCD(a, b) == IF b = 0 THEN a ELSE GCD(b, a % b)

Norm(n, d) ==
    IF d = 0 THEN <<Sign(n), 0>>
    ELSE LET g == GCD(Abs(n), d) IN <<n \div g, d \div g>>

Q(n) == <<n, 1>>

NaN == <<0, 0>>

IsNaN(a) == a = NaN

IsFinite(a) == a[2] # 0

RNeg(a) == <<-a[1], a[2]>>

RAdd(a, b) ==
    IF a[2] = 0 /\ b[2] = 0
    THEN IF a[1] = b[1] THEN a ELSE NaN
    ELSE Norm(a[1] * b[2] + b[1] * a[2], a[2] * b[2])

RSub(a, b) == RAdd(a, RNeg(b))

RMul(a, b) == Norm(a[1] * b[1], a[2] * b[2])

RDiv(a, b) ==
    IF b[1] = 0 /\ b[2] # 0
    THEN Norm(a[1], 0)
    ELSE Norm(a[1] * b[2] * Sign(b[1]), a[2] * Abs(b[1]))

\* a < b; every comparison with NaN is false
RLt(a, b) ==
    IF IsNaN(a) \/ IsNaN(b) THEN FALSE
    ELSE IF a[2] = 0 /\ b[2] = 0 THEN a[1] < b[1]
    ELSE a[1] * b[2] < b[1] * a[2]

(***************************************************************************)
(* DataFrames.                                                             *)
(***************************************************************************)
Row(i, y, v) == [idx |-> i, year |-> y, emissions_MtCO2e |-> v]

\* A frame as read_csv builds it: RangeIndex labels 0 .. n-1 in row order.
Frame(pairs) == [i \in 1..Len(pairs) |-> Row(i - 1, pairs[i][1], pairs[i][2])]

RECURSIVE InsertByYear(_, _)
InsertByYear(sorted, r) ==
    IF sorted = <<>> THEN <<r>>
    ELSE IF sorted[Len(sorted)].year <= r.year THEN Append(sorted, r)
    ELSE Append(InsertByYear(SubSeq(sorted, 1, Len(sorted) - 1), r),
                sorted[Len(sorted)])

RECURSIVE SortFrom(_, _, _)
SortFrom(df, i, acc) ==
    IF i > Len(df) THEN acc ELSE SortFrom(df, i + 1, InsertByYear(acc, df[i]))

\* The frame left in its input order.
unsorted(df) == df

\* df.sort_values('year'): a new frame, rows ascending by year, labels kept.
sort_values(df) == SortFrom(df, 1, <<>>)

\* The frame with no row filtered out.
filter_none(df, cutoff) == df

\* df[df['year'] >= cutoff]
RECURSIVE FilterFrom(_, _)
FilterFrom(df, cutoff) ==
    IF df = <<>> THEN <<>>
    ELSE IF df[1].year >= cutoff
         THEN <<df[1]>> \o FilterFrom(Tail(df), cutoff)
         ELSE FilterFrom(Tail(df), cutoff)

\* df['emissions_MtCO2e'].idxmax(): label of the first row, in the frame's
\* row order, that holds the maximum.
RECURSIVE IdxMaxFrom(_, _, _)
IdxMaxFrom(df, i, best) ==
    IF i > Len(df) THEN df[best].idx
    ELSE IdxMaxFrom(df, i + 1,
            IF RLt(df[best].emissions_MtCO2e, df[i].emissions_MtCO2e)
            THEN i ELSE best)

\* The label of the last row that holds the maximum.
RECURSIVE IdxMaxLastFrom(_, _, _)
IdxMaxLastFrom(df, i, best) ==
    IF i > Len(df) THEN df[best].idx
    ELSE IdxMaxLastFrom(df, i + 1,
            IF RLt(df[i].emissions_MtCO2e, df[best].emissions_MtCO2e)
            THEN best ELSE i)

idxmax_last(df) == IdxMaxLastFrom(df, 2, 1)

idxmax(df) == IdxMaxFrom(df, 2, 1)

\* df.loc[label]
loc(df, label) == df[CHOOSE i \in 1..Len(df) : df[i].idx = label]

(***************************************************************************)
(* Results of a call.                                                      *)
(***************************************************************************)
NotCalled == [status |-> "not_called"]

Raised(e) == [status |-> "raised", exception |-> e]

Returned(v) == [status |-> "returned", value |-> v]

(***************************************************************************)
(* EmissionsAnalyzer.calculate_trend_metrics                               *)
(***************************************************************************)
RecentYears == 10

\* The locals of calculate_trend_metrics, on the sorted non-empty frame df.
baseline_year(df) == df[1]

latest_year(df) == df[Len(df)]

peak_emissions(df) == loc(df, idxmax(df))

\* The change taken from the latest point back to the baseline.
total_change_swapped(df) ==
    RSub(baseline_year(df).emissions_MtCO2e, latest_year(df).emissions_MtCO2e)

total_change(df) ==
    RSub(latest_year(df).emissions_MtCO2e, baseline_year(df).emissions_MtCO2e)

total_change_pct(df) ==
    RMul(RDiv(total_change(df), baseline_year(df).emissions_MtCO2e), Q(100))

\* The window without the year latest - 10.
recent_df_exclusive(df) ==
    FilterFrom(df, latest_year(df).year - RecentYears + 1)

recent_df(df) == FilterFrom(df, latest_year(df).year - RecentYears)

recent_change(df) ==
    RSub(recent_df(df)[Len(recent_df(df))].emissions_MtCO2e,
         recent_df(df)[1].emissions_MtCO2e)

recent_change_pct(df) ==
    RMul(RDiv(recent_change(df), recent_df(df)[1].emissions_MtCO2e), Q(100))

\* The number of steps between the points in place of the calendar span.
years_span_steps(df) == Len(df) - 1

years_span(df) == latest_year(df).year - baseline_year(df).year

avg_annual_change(df) == RDiv(total_change(df), Q(years_span(df)))

avg_annual_change_pct(df) == RDiv(total_change_pct(df), Q(years_span(df)))

\* df.iloc[0] of an empty frame raises IndexError; the divisions are numpy
\* scalar divisions and return inf or NaN on a zero divisor.
calculate_trend_metrics(frame) ==
    LET df == sort_values(frame) IN
    IF df = <<>> THEN Raised("IndexError")
    ELSE Returned([
        baseline |-> [year |-> baseline_year(df).year,
                      emissions_mt |-> baseline_year(df).emissions_MtCO2e],
        latest |-> [year |-> latest_year(df).year,
                    emissions_mt |-> latest_year(df).emissions_MtCO2e],
        peak |-> [year |-> peak_emissions(df).year,
                  emissions_mt |-> peak_emissions(df).emissions_MtCO2e],
        total_change |-> [absolute_mt |-> total_change(df),
                          percentage |-> total_change_pct(df),
                          years_span |-> years_span(df)],
        recent_trend |-> [absolute_mt |-> recent_change(df),
                          percentage |-> recent_change_pct(df),
                          years |-> RecentYears],
        average_annual |-> [absolute_mt |-> avg_annual_change(df),
                            percentage |-> avg_annual_change_pct(df)]])

(***************************************************************************)
(* EmissionsAnalyzer.identify_patterns                                     *)
(***************************************************************************)
\* df['emissions_MtCO2e'].pct_change() * 100: NaN for the first row, then
\* (value / previous value - 1) * 100.
yoy_change(df) ==
    [i \in 1..Len(df) |->
        IF i = 1 THEN NaN
        ELSE RMul(RSub(RDiv(df[i].emissions_MtCO2e, df[i - 1].emissions_MtCO2e),
                       Q(1)),
                  Q(100))]

\* Series.dropna()
RECURSIVE dropna(_)
dropna(s) ==
    IF s = <<>> THEN <<>>
    ELSE IF IsNaN(s[1]) THEN dropna(Tail(s)) ELSE <<s[1]>> \o dropna(Tail(s))

\* Series.tail(n)
tail(s, n) == IF Len(s) <= n THEN s ELSE SubSeq(s, Len(s) - n + 1, Len(s))

RECURSIVE SumSeq(_)
SumSeq(s) == IF s = <<>> THEN Q(0) ELSE RAdd(s[1], SumSeq(Tail(s)))

\* Series.mean(): NaN entries are skipped, the mean of nothing is NaN
mean(s) ==
    LET xs == dropna(s) IN
    IF xs = <<>> THEN NaN ELSE RDiv(SumSeq(xs), Q(Len(xs)))

\* The square of Series.std(): sample variance (ddof = 1) of the entries
\* that are not NaN; NaN when fewer than two entries remain.
variance(s) ==
    LET xs == dropna(s)
        m == mean(xs)
        sq == [i \in 1..Len(xs) |-> RMul(RSub(xs[i], m), RSub(xs[i], m))]
    IN IF Len(xs) < 2 THEN NaN ELSE RDiv(SumSeq(sq), Q(Len(xs) - 1))

RECURSIVE MaxSeq(_)
MaxSeq(s) ==
    IF Len(s) = 1 THEN s[1]
    ELSE LET m == MaxSeq(Tail(s)) IN IF RLt(s[1], m) THEN m ELSE s[1]

RECURSIVE MinSeq(_)
MinSeq(s) ==
    IF Len(s) = 1 THEN s[1]
    ELSE LET m == MinSeq(Tail(s)) IN IF RLt(m, s[1]) THEN m ELSE s[1]

\* Series.max() and Series.min(): NaN entries are skipped
series_max(s) == IF dropna(s) = <<>> THEN NaN ELSE MaxSeq(dropna(s))

series_min(s) == IF dropna(s) = <<>> THEN NaN ELSE MinSeq(dropna(s))

Max2(a, b) == IF a >= b THEN a ELSE b

\* The streak loop without the reset of the opposite streak.
StreakStepNoReset(c, change) ==
    IF RLt(change, Q(0))
    THEN [c EXCEPT !.current_decline_streak = c.current_decline_streak + 1,
                   !.consecutive_declines =
                       Max2(c.consecutive_declines, c.current_decline_streak + 1)]
    ELSE IF RLt(Q(0), change)
    THEN [c EXCEPT !.current_increase_streak = c.current_increase_streak + 1,
                   !.consecutive_increases =
                       Max2(c.consecutive_increases, c.current_increase_streak + 1)]
    ELSE c

\* One iteration of the streak loop on the four counters.
StreakStep(c, change) ==
    IF RLt(change, Q(0))
    THEN [c EXCEPT !.current_decline_streak = c.current_decline_streak + 1,
                   !.current_increase_streak = 0,
                   !.consecutive_declines =
                       Max2(c.consecutive_declines, c.current_decline_streak + 1)]
    ELSE IF RLt(Q(0), change)
    THEN [c EXCEPT !.current_increase_streak = c.current_increase_streak + 1,
                   !.current_decline_streak = 0,
                   !.consecutive_increases =
                       Max2(c.consecutive_increases, c.current_increase_streak + 1)]
    ELSE c

RECURSIVE StreakLoop(_, _)
StreakLoop(c, changes) ==
    IF changes = <<>> THEN c
    ELSE StreakLoop(StreakStep(c, changes[1]), Tail(changes))

\* for change in df['yoy_change'].dropna(): ...
streaks(changes) ==
    StreakLoop([consecutive_declines |-> 0, consecutive_increases |-> 0,
                current_decline_streak |-> 0, current_increase_streak |-> 0],
               dropna(changes))

AvgWindow == 5

\* The flag taken over the window of the five-year average.
declining_window_of_average == AvgWindow

DecliningWindow == 3

\* self.df rebound to the sorted frame.
self_df_sorted(df) == sort_values(df)

\* self.df after identify_patterns: sort_values returned a new frame, the
\* yoy columns are added to that frame, self.df is not assigned.
self_df_after_patterns(df) == df

identify_patterns(frame) ==
    LET df == sort_values(frame)
        yoy == yoy_change(df)
        c == streaks(yoy)
    IN Returned([
        volatility |-> [variance_pct |-> variance(yoy),
                        max_annual_increase_pct |-> series_max(yoy),
                        max_annual_decrease_pct |-> series_min(yoy)],
        streaks |-> [longest_decline_years |-> c.consecutive_declines,
                     longest_increase_years |-> c.consecutive_increases],
        recent_trend |-> [last_5_years_avg_change |-> mean(tail(yoy, AvgWindow)),
                          is_declining |->
                              RLt(mean(tail(yoy, DecliningWindow)), Q(0))]])

(***************************************************************************)
(* EmissionsAnalyzer.simple_forecast                                       *)
(***************************************************************************)
\* df['year'].max() of a non-empty frame
RECURSIVE MaxYear(_)
MaxYear(df) ==
    IF Len(df) = 1 THEN df[1].year ELSE Max2(df[1].year, MaxYear(Tail(df)))

RECURSIVE SumYears(_)
SumYears(df) == IF df = <<>> THEN 0 ELSE df[1].year + SumYears(Tail(df))

RECURSIVE SumYearSquares(_)
SumYearSquares(df) ==
    IF df = <<>> THEN 0 ELSE df[1].year * df[1].year + SumYearSquares(Tail(df))

RECURSIVE SumValues(_)
SumValues(df) ==
    IF df = <<>> THEN Q(0)
    ELSE RAdd(df[1].emissions_MtCO2e, SumValues(Tail(df)))

RECURSIVE SumYearValues(_)
SumYearValues(df) ==
    IF df = <<>> THEN Q(0)
    ELSE RAdd(RMul(Q(df[1].year), df[1].emissions_MtCO2e),
              SumYearValues(Tail(df)))

\* The line through the first and the last point of the frame.
polyfit_endpoints(df) ==
    LET a == df[1]
        b == df[Len(df)]
        slope == RDiv(RSub(b.emissions_MtCO2e, a.emissions_MtCO2e),
                      Q(b.year - a.year))
    IN <<slope, RSub(a.emissions_MtCO2e, RMul(slope, Q(a.year)))>>

\* np.polyfit(x, y, 1) on the (year, value) pairs of a non-empty frame:
\* <<slope, intercept>> of the least-squares line.  When all n points share
\* one year x (a single point among them) the system is rank deficient and
\* lstsq returns the minimum-norm solution of the column-scaled system,
\* slope = mean(y) / (2x), intercept = mean(y) / 2.
polyfit(df) ==
    LET n == Len(df)
        sx == SumYears(df)
        sy == SumValues(df)
        det == n * SumYearSquares(df) - sx * sx
        slope == RDiv(RSub(RMul(Q(n), SumYearValues(df)), RMul(Q(sx), sy)),
                      Q(det))
    IN IF det = 0
       THEN <<RDiv(sy, Q(2 * n * df[1].year)), RDiv(sy, Q(2 * n))>>
       ELSE <<slope, RDiv(RSub(sy, RMul(slope, Q(sx))), Q(n))>>

\* The prediction without the clamp.
no_clamp(emissions) == emissions

\* max(0, emissions)
clamp(emissions) == IF RLt(Q(0), emissions) THEN emissions ELSE Q(0)

\* range(last_year, last_year + years_ahead)
forecast_years_from_last(last_year, years_ahead) ==
    [i \in 1..years_ahead |-> last_year + i - 1]

\* range(last_year + 1, last_year + years_ahead + 1)
forecast_years(last_year, years_ahead) ==
    [i \in 1..years_ahead |-> last_year + i]

\* self.df rebound to the ten-year window.
self_df_cut_to_window(df) ==
    IF df = <<>> THEN df ELSE FilterFrom(df, MaxYear(df) - RecentYears)

\* self.df after simple_forecast: the window is cut from the sorted copy,
\* self.df is not assigned.
self_df_after_forecast(df) == df

simple_forecast(frame, years_ahead) ==
    LET df == sort_values(frame) IN
    IF df = <<>> THEN Raised("TypeError")
    ELSE
    LET window == FilterFrom(df, MaxYear(df) - RecentYears)
        slope == polyfit(window)[1]
        intercept == polyfit(window)[2]
        last_year == MaxYear(df)
        fy == forecast_years(last_year, years_ahead)
        forecast_data ==
            [i \in 1..Len(fy) |->
                [year |-> fy[i],
                 emissions_MtCO2e |->
                     clamp(RAdd(RMul(slope, Q(fy[i])), intercept)),
                 type |-> "forecast"]]
        historical_df ==
            [i \in 1..Len(df) |->
                [year |-> df[i].year,
                 emissions_MtCO2e |-> df[i].emissions_MtCO2e,
                 type |-> "historical"]]
    IN Returned(historical_df \o forecast_data)

(***************************************************************************)
(* EmissionsAnalyzer.generate_summary_report                               *)
(***************************************************************************)
RECURSIVE Pow10(_)
Pow10(p) == IF p = 0 THEN 1 ELSE 10 * Pow10(p - 1)

\* n / d cut to the integer below.
round_down(n, d) == n \div d

\* n / d rounded to the nearest integer, a tie to the even one (d > 0)
RoundHalfEven(n, d) ==
    LET f == n \div d
        r == n % d
    IN IF 2 * r < d THEN f
       ELSE IF 2 * r > d THEN f + 1
       ELSE IF f % 2 = 0 THEN f ELSE f + 1

\* f"{x:.<places>f}": the digits printed, as the integer x * 10^places
\* rounded, or the text Python prints for inf and NaN.
format_f(x, places) ==
    IF IsNaN(x) THEN [places |-> places, text |-> "nan"]
    ELSE IF ~IsFinite(x)
    THEN [places |-> places, text |-> IF x[1] > 0 THEN "inf" ELSE "-inf"]
    ELSE [places |-> places,
          digits |-> RoundHalfEven(x[1] * Pow10(places), x[2])]

RECURSIVE ISqrt(_)
ISqrt(w) ==
    IF w < 2 THEN w
    ELSE LET s == 2 * ISqrt(w \div 4)
         IN IF (s + 1) * (s + 1) <= w THEN s + 1 ELSE s

\* f"{std:.1f}" of the standard deviation whose square is v: the tenths
\* m nearest to 10 * sqrt(v), i.e. the largest m with (2m - 1)^2 <= 400 v.
format_std(v) ==
    IF ~IsFinite(v) THEN format_f(v, 1)
    ELSE [places |-> 1, digits |-> (ISqrt((400 * v[1]) \div v[2]) + 1) \div 2]

\* The thresholds with the boundary -10 counted as strong progress.
assessment_inclusive(percentage) ==
    IF ~RLt(Q(-10), percentage) /\ ~IsNaN(percentage) THEN "Strong Progress"
    ELSE IF RLt(percentage, Q(0)) THEN "Moderate Progress"
    ELSE "Limited Progress"

\* The assessment line chosen from total_change.percentage.
assessment(percentage) ==
    IF RLt(percentage, Q(-10)) THEN "Strong Progress"
    ELSE IF RLt(percentage, Q(0)) THEN "Moderate Progress"
    ELSE "Limited Progress"

generate_summary_report(frame) ==
    LET m == calculate_trend_metrics(frame)
        p == identify_patterns(frame)
    IN IF m.status = "raised" THEN m
       ELSE Returned([
        time_period |-> <<m.value.baseline.year, m.value.latest.year>>,
        baseline_emissions |-> format_f(m.value.baseline.emissions_mt, 1),
        latest_emissions |-> format_f(m.value.latest.emissions_mt, 1),
        peak_emissions |-> format_f(m.value.peak.emissions_mt, 1),
        peak_year |-> m.value.peak.year,
        total_change_pct |-> format_f(m.value.total_change.percentage, 1),
        total_change_mt |-> format_f(m.value.total_change.absolute_mt, 1),
        average_annual_pct |-> format_f(m.value.average_annual.percentage, 2),
        recent_trend_pct |-> format_f(m.value.recent_trend.percentage, 1),
        volatility |-> format_std(p.value.volatility.variance_pct),
        longest_decline |-> p.value.streaks.longest_decline_years,
        recent_trend |-> IF p.value.recent_trend.is_declining
                         THEN "Declining" ELSE "Stable/Increasing",
        assessment |-> assessment(m.value.total_change.percentage),
        recent_assessment |-> IF p.value.recent_trend.is_declining
                              THEN "Positive" ELSE "Concerning"])

(***************************************************************************)
(* Inputs.                                                                 *)
(***************************************************************************)
Values == {Q(v) : v \in 0..MaxVal}

UniqueYears(pairs) ==
    \A i, j \in 1..Len(pairs) : pairs[i][1] = pairs[j][1] => i = j

SeriesInputs ==
    {Frame(p) : p \in {q \in UNION {[1..n -> Years \X Values] : n \in 0..MaxLen} :
                          UniqueYears(q)}}

\* Series of the specification's examples, in halves of a megatonne where
\* a value is not whole.
ClampExample == Frame(<<<<2020, Q(10)>>, <<2021, Q(5)>>, <<2022, <<1, 2>>>>>>)

\* Year-over-year changes +100, -50, -50, -50, +100, -50 per cent: the sign
\* pattern of the streak example +2, -1, -3, -2, +5, -1.
StreakExample ==
    Frame(<<<<2001, Q(8)>>, <<2002, Q(16)>>, <<2003, Q(8)>>, <<2004, Q(4)>>,
            <<2005, Q(2)>>, <<2006, Q(4)>>, <<2007, Q(2)>>>>)

MetricsExample ==
    Frame(<<<<1990, Q(51)>>, <<2000, Q(55)>>, <<2010, Q(53)>>, <<2020, Q(48)>>,
            <<2023, Q(45)>>>>)

\* Consecutive declines of 50 per cent around a year without change.
FlatYearExample ==
    Frame(<<<<2001, Q(4)>>, <<2002, Q(2)>>, <<2003, Q(2)>>, <<2004, Q(1)>>>>)

\* A total change of exactly -10 per cent, given latest year first.
BoundaryExample == Frame(<<<<2021, Q(9)>>, <<2020, Q(10)>>>>)

\* Unsorted, the maximum held by the years 2013 and 2002, and 2002 older
\* than the ten-year window.
ShuffledExample == Frame(<<<<2013, Q(3)>>, <<2002, Q(3)>>, <<2012, Q(1)>>>>)

Examples ==
    {ClampExample, StreakExample, FlatYearExample, BoundaryExample,
     ShuffledExample}

\* Series in which two rows carry the same year.
DuplicateYearInputs ==
    {Frame(p) : p \in {q \in UNION {[1..n -> Years \X Values] : n \in 2..MaxLen} :
                          ~UniqueYears(q)}}

\* Two rows of 2012 ahead of 2013, and two rows that share the latest year.
DuplicateBaselineExample ==
    Frame(<<<<2012, Q(1)>>, <<2012, Q(3)>>, <<2013, Q(2)>>>>)

DuplicateLatestExample ==
    Frame(<<<<2013, Q(0)>>, <<2002, Q(2)>>, <<2013, Q(4)>>>>)

DuplicateExamples == {DuplicateBaselineExample, DuplicateLatestExample}

Horizons == 0..MaxAhead

\* The orders in which sort_values may meet the rows of df: the default
\* kind 'quicksort' is not stable, so rows of one year come out in an order
\* the call does not fix.  Each frame of the set lists the rows of df with
\* the rows of equal year exchanged among their places; df itself when
\* every year is unique.
TieOrders(df) ==
    IF \A i, j \in 1..Len(df) : df[i].year = df[j].year => i = j
    THEN {df}
    ELSE {[i \in 1..Len(df) |-> df[p[i]]] :
            p \in {q \in [1..Len(df) -> 1..Len(df)] :
                     /\ \A i, j \in 1..Len(df) : q[i] = q[j] => i = j
                     /\ \A i \in 1..Len(df) : df[q[i]].year = df[i].year}}

\* A horizon as long as the window.
years_ahead_of_window == RecentYears

\* simple_forecast(self, years_ahead: int = 5)
DefaultYearsAhead == 5

\* analyze_emissions_data on the frame read_csv returns: the four calls in
\* the order of the dict display; the first exception leaves the function.
analyze_emissions_data(frame) ==
    LET m == calculate_trend_metrics(frame)
        p == identify_patterns(frame)
        f == simple_forecast(frame, DefaultYearsAhead)
        r == generate_summary_report(frame)
    IN IF m.status = "raised" THEN m
       ELSE IF p.status = "raised" THEN p
       ELSE IF f.status = "raised" THEN f
       ELSE IF r.status = "raised" THEN r
       ELSE Returned([metrics |-> m.value,
                      patterns |-> p.value,
                      forecast |-> f.value,
                      summary_report |-> r.value])

\* The emissions file at data/processed/ssb_emissions_clean.csv: absent,
\* a CSV without a 'year' column, or a CSV holding a series.
MissingFile == [exists |-> FALSE, year_column |-> FALSE, df |-> <<>>]

DataFiles ==
    {MissingFile, [exists |-> TRUE, year_column |-> FALSE, df |-> <<>>]}
        \cup {[exists |-> TRUE, year_column |-> TRUE, df |-> d] :
                 d \in SeriesInputs \cup Examples}

\* analyze_emissions_data(csv_path) on a file that exists: the constructor
\* raises KeyError at self.df['year'] when the column is absent; frame is
\* the file's series in the order the sorts leave it.
analyze_csv(file, frame) ==
    IF ~file.year_column THEN Raised("KeyError")
    ELSE analyze_emissions_data(frame)

\* Nothing has been run from the command line.
NoRun(file) ==
    [data_path |-> file, entry |-> "none", analysis |-> NotCalled,
     exit_status |-> NotCalled]

\* The entry point without its except clause.
main_unguarded(file, frame) ==
    IF ~file.exists
    THEN [data_path |-> file, entry |-> "run_analysis.main",
          analysis |-> NotCalled, exit_status |-> Returned(1)]
    ELSE LET results == analyze_csv(file, frame)
         IN [data_path |-> file, entry |-> "run_analysis.main",
             analysis |-> results,
             exit_status |-> IF results.status = "raised"
                             THEN results ELSE Returned(0)]

\* run_analysis.py main(): return 1 when the file is missing; the analysis
\* and the printing of its results run inside try, which ends in return 0;
\* except Exception returns 1.  The printing reads the report string and
\* the forecast rows (integer years, :.1f on floats) and raises nothing.
main(file, frame) ==
    IF ~file.exists
    THEN [data_path |-> file, entry |-> "run_analysis.main",
          analysis |-> NotCalled, exit_status |-> Returned(1)]
    ELSE LET results == analyze_csv(file, frame)
         IN [data_path |-> file, entry |-> "run_analysis.main",
             analysis |-> results,
             exit_status |-> IF results.status = "raised"
                             THEN Returned(1) ELSE Returned(0)]

\* main.py run_analysis(): the same steps as main() of run_analysis.py.
run_analysis(file, frame) ==
    IF ~file.exists
    THEN [data_path |-> file, entry |-> "main.run_analysis",
          analysis |-> NotCalled, exit_status |-> Returned(1)]
    ELSE LET results == analyze_csv(file, frame)
         IN [data_path |-> file, entry |-> "main.run_analysis",
             analysis |-> results,
             exit_status |-> IF results.status = "raised"
                             THEN Returned(1) ELSE Returned(0)]

InitCli == cli = NoRun(MissingFile)

\* recalled records that some operation has been called again on this
\* analyzer after it had already answered once.
InitResults ==
    /\ self_df = caller_df
    /\ metrics = NotCalled
    /\ patterns = NotCalled
    /\ forecast = NotCalled
    /\ report = NotCalled
    /\ recalled = FALSE
    /\ bundle = NotCalled

CalculateTrendMetrics ==
    /\ \E f \in TieOrders(self_df) : metrics' = calculate_trend_metrics(f)
    /\ recalled' = (recalled \/ metrics # NotCalled)
    /\ UNCHANGED <<caller_df, self_df, patterns, forecast, report, bundle>>
    /\ UNCHANGED <<api_vars, cli>>

IdentifyPatterns ==
    /\ \E f \in TieOrders(self_df) : patterns' = identify_patterns(f)
    /\ self_df' = self_df_after_patterns(self_df)
    /\ recalled' = (recalled \/ patterns # NotCalled)
    /\ UNCHANGED <<caller_df, metrics, forecast, report, bundle>>
    /\ UNCHANGED <<api_vars, cli>>

SimpleForecast ==
    \E years_ahead \in Horizons :
        /\ \E f \in TieOrders(self_df) :
               forecast' = [years_ahead |-> years_ahead,
                            result |-> simple_forecast(f, years_ahead)]
        /\ self_df' = self_df_after_forecast(self_df)
        /\ recalled' = (recalled \/ forecast # NotCalled)
        /\ UNCHANGED <<caller_df, metrics, patterns, report, bundle>>
        /\ UNCHANGED <<api_vars, cli>>

GenerateSummaryReport ==
    /\ \E f \in TieOrders(self_df) : report' = generate_summary_report(f)
    /\ recalled' = (recalled \/ report # NotCalled)
    /\ UNCHANGED <<caller_df, self_df, metrics, patterns, forecast, bundle>>
    /\ UNCHANGED <<api_vars, cli>>

\* results = analyze_emissions_data(data_path), the file holding caller_df.
AnalyzeEmissionsData ==
    /\ \E f \in TieOrders(caller_df) : bundle' = analyze_emissions_data(f)
    /\ UNCHANGED <<caller_df, self_df, metrics, patterns, forecast, report,
                   recalled>>
    /\ UNCHANGED <<api_vars, cli>>

\* python run_analysis.py
RunAnalysisMain ==
    /\ \E f \in TieOrders(cli.data_path.df) : cli' = main(cli.data_path, f)
    /\ UNCHANGED <<analyzer_vars, api_vars>>

\* python main.py analyze
MainRunAnalysis ==
    /\ \E f \in TieOrders(cli.data_path.df) :
           cli' = run_analysis(cli.data_path, f)
    /\ UNCHANGED <<analyzer_vars, api_vars>>

NextCli ==
    \/ RunAnalysisMain
    \/ MainRunAnalysis

Next ==
    \/ CalculateTrendMetrics
    \/ IdentifyPatterns
    \/ SimpleForecast
    \/ GenerateSummaryReport

NextTrend ==
    \/ CalculateTrendMetrics
    \/ SimpleForecast

\* The convenience function alone.
NextBundle == AnalyzeEmissionsData

(***************************************************************************)
(* The web API (app/api/auth.py, companies.py, users.py).  A company is    *)
(* [id, name, org_number], a user [id, email, role, company_id]; the other *)
(* columns are carried along by the handlers and left out.  A token is the *)
(* decoded JWT [jti, type, sub, role, company_id]; the clock stands still, *)
(* so no token expires.  A handler runs as one step.                       *)
(***************************************************************************)
MaxTokens == 3
MaxCompanies == 3
MaxUsers == 4

\* class UserRole
Roles == {"admin", "company_admin", "user", "viewer"}

\* A key the request body does not hold, a claim the token does not hold.
Missing == "missing"

Emails ==
    {"admin@bergen-maritime.no", "ceo@oslo-tech.no", "analyst@oslo-tech.no",
     "new@oslo-tech.no"}

\* The addresses create_user is asked for: one taken by a seeded user and
\* one free.
NewEmails == {"analyst@oslo-tech.no", "new@oslo-tech.no"}

OrgNumbers == {"123456789", "987654321", "555666777"}

\* The tables after scripts/add_demo_data.py, cut to two companies and
\* three users, the first of them a platform admin.
SeedCompanies ==
    {[id |-> 1, name |-> "Bergen Maritime AS", org_number |-> "123456789"],
     [id |-> 2, name |-> "Oslo Tech Solutions", org_number |-> "987654321"]}

SeedUsers ==
    {[id |-> 1, email |-> "admin@bergen-maritime.no", role |-> "admin",
      company_id |-> 1],
     [id |-> 2, email |-> "ceo@oslo-tech.no", role |-> "company_admin",
      company_id |-> 2],
     [id |-> 3, email |-> "analyst@oslo-tech.no", role |-> "user",
      company_id |-> 2]}

\* A request without an Authorization header.
NoToken ==
    [jti |-> 0, type |-> "none", sub |-> 0, role |-> Missing, company_id |-> 0]

\* The path and body parameters a handler has read from its request.
NoRequest ==
    [org_number |-> Missing, email |-> Missing, company_id |-> 0,
     role |-> Missing]

NoResponse ==
    [endpoint |-> "none", presented |-> 0, request |-> NoRequest,
     status |-> 0, body |-> {}]

\* User.get_jwt_claims(): the claims verify_token and the role checks read.
get_jwt_claims(user) == [role |-> user.role, company_id |-> user.company_id]

\* create_access_token(identity=user, additional_claims=user.get_jwt_claims())
create_access_token(jti, user) ==
    [jti |-> jti, type |-> "access", sub |-> user.id,
     role |-> get_jwt_claims(user).role,
     company_id |-> get_jwt_claims(user).company_id]

\* create_refresh_token(identity=user)
create_refresh_token(jti, user) ==
    [jti |-> jti, type |-> "refresh", sub |-> user.id, role |-> Missing,
     company_id |-> 0]

\* user_lookup_callback: the users whose id is the token's sub
user_lookup(t) == {u \in users : u.id = t.sub}

\* @jwt_required(): 200 when the request may enter the handler, else the
\* status of the loader that answers: no token (missing_token_callback),
\* a token of the other type (invalid_token_callback), no user for the
\* identity.  configure_jwt registers no token_in_blocklist_loader, so
\* revoked_tokens is not consulted.
jwt_required(t, type) ==
    IF t = NoToken THEN 401
    ELSE IF t.type # type THEN 401
    ELSE IF user_lookup(t) = {} THEN 401
    ELSE 200

Presented == tokens \cup {NoToken}

ReplyTo(endpoint, t, request, status, body) ==
    response' = [endpoint |-> endpoint, presented |-> t.jti,
                 request |-> request, status |-> status, body |-> body]

Reply(endpoint, t, status, body) ==
    ReplyTo(endpoint, t, NoRequest, status, body)

\* Any caller that holds a token.
require_authenticated(t) == TRUE

\* companies.py require_admin()
require_admin(t) == t.role = "admin"

\* users.py require_admin_or_company_admin()
require_admin_or_company_admin(t) == t.role \in {"admin", "company_admin"}

\* POST /api/auth/login
Login ==
    /\ \E email \in Emails \cup {Missing}, password_ok \in BOOLEAN :
        LET found == {u \in users : u.email = email} IN
        IF email = Missing
        THEN /\ Reply("login", NoToken, 400, {})
             /\ UNCHANGED tokens
        ELSE IF found # {} /\ password_ok
        THEN LET user == CHOOSE u \in found : TRUE
                 access_token ==
                     create_access_token(Cardinality(tokens) + 1, user)
                 refresh_token ==
                     create_refresh_token(Cardinality(tokens) + 2, user)
             IN /\ Cardinality(tokens) + 2 <= MaxTokens
                /\ tokens' = tokens \cup {access_token, refresh_token}
                /\ Reply("login", NoToken, 200, {access_token, refresh_token})
        ELSE /\ Reply("login", NoToken, 401, {})
             /\ UNCHANGED tokens
    /\ UNCHANGED <<companies, users, sequences, revoked_tokens>>
    /\ UNCHANGED <<analyzer_vars, cli, pending>>

\* POST /api/auth/refresh
Refresh ==
    /\ \E t \in Presented :
        IF jwt_required(t, "refresh") # 200
        THEN /\ Reply("refresh", t, jwt_required(t, "refresh"), {})
             /\ UNCHANGED tokens
        ELSE LET user == CHOOSE u \in user_lookup(t) : TRUE
                 new_token ==
                     create_access_token(Cardinality(tokens) + 1, user)
             IN /\ Cardinality(tokens) + 1 <= MaxTokens
                /\ tokens' = tokens \cup {new_token}
                /\ Reply("refresh", t, 200, {new_token})
    /\ UNCHANGED <<companies, users, sequences, revoked_tokens>>
    /\ UNCHANGED <<analyzer_vars, cli, pending>>

\* POST /api/auth/logout
Logout ==
    /\ \E t \in Presented :
        IF jwt_required(t, "access") # 200
        THEN /\ Reply("logout", t, jwt_required(t, "access"), {})
             /\ UNCHANGED revoked_tokens
        ELSE /\ revoked_tokens' = revoked_tokens \cup {t.jti}
             /\ Reply("logout", t, 200, {})
    /\ UNCHANGED <<companies, users, sequences, tokens>>
    /\ UNCHANGED <<analyzer_vars, cli, pending>>

\* GET /api/auth/profile
Profile ==
    /\ \E t \in Presented :
        IF jwt_required(t, "access") # 200
        THEN Reply("profile", t, jwt_required(t, "access"), {})
        ELSE Reply("profile", t, 200, user_lookup(t))
    /\ UNCHANGED <<companies, users, sequences, tokens, revoked_tokens>>
    /\ UNCHANGED <<analyzer_vars, cli, pending>>

\* GET /api/auth/verify
VerifyToken ==
    /\ \E t \in Presented :
        IF jwt_required(t, "access") # 200
        THEN Reply("verify", t, jwt_required(t, "access"), {})
        ELSE Reply("verify", t, 200,
                   {[user_id |-> t.sub, role |-> t.role,
                     company_id |-> t.company_id]})
    /\ UNCHANGED <<companies, users, sequences, tokens, revoked_tokens>>
    /\ UNCHANGED <<analyzer_vars, cli, pending>>

\* GET /api/companies/
ListCompanies ==
    /\ \E t \in Presented :
        IF jwt_required(t, "access") # 200
        THEN Reply("list_companies", t, jwt_required(t, "access"), {})
        ELSE Reply("list_companies", t, 200,
                   IF t.role = "admin" THEN companies
                   ELSE {c \in companies : c.id = t.company_id})
    /\ UNCHANGED <<companies, users, sequences, tokens, revoked_tokens>>
    /\ UNCHANGED <<analyzer_vars, cli, pending>>

\* POST /api/companies/ with the body {name, org_number}; org_number is
\* Missing for a body without that key.
CreateCompany ==
    /\ \E t \in Presented :
        IF jwt_required(t, "access") # 200
        THEN /\ Reply("create_company", t, jwt_required(t, "access"), {})
             /\ UNCHANGED <<companies, sequences>>
        ELSE IF ~require_admin(t)
        THEN /\ Reply("create_company", t, 403, {})
             /\ UNCHANGED <<companies, sequences>>
        ELSE
        \E org_number \in OrgNumbers \cup {Missing} :
        LET data == [NoRequest EXCEPT !.org_number = org_number] IN
        IF org_number = Missing
        THEN /\ Reply("create_company", t, 400, {})
             /\ UNCHANGED <<companies, sequences>>
        ELSE IF \E c \in companies : c.org_number = org_number
        THEN /\ ReplyTo("create_company", t, data, 409, {})
             /\ UNCHANGED <<companies, sequences>>
        ELSE LET company == [id |-> sequences.companies + 1,
                             name |-> "New Company",
                             org_number |-> org_number]
             IN /\ sequences.companies < MaxCompanies
                /\ companies' = companies \cup {company}
                /\ sequences' = [sequences EXCEPT !.companies = @ + 1]
                /\ ReplyTo("create_company", t, data, 201, {company})
    /\ UNCHANGED <<users, tokens, revoked_tokens>>
    /\ UNCHANGED <<analyzer_vars, cli, pending>>

\* GET /api/companies/<company_id>: the route carries no jwt_required, the
\* token of the request is not looked at.  The NotFound of get_or_404 is
\* caught by the handler's except clause, which answers 404.
GetCompany ==
    /\ \E t \in Presented, company_id \in 1..MaxCompanies :
        LET found == {c \in companies : c.id = company_id} IN
        IF found = {}
        THEN Reply("get_company", t, 404, {})
        ELSE Reply("get_company", t, 200, found)
    /\ UNCHANGED <<companies, users, sequences, tokens, revoked_tokens>>
    /\ UNCHANGED <<analyzer_vars, cli, pending>>

\* PUT /api/companies/<company_id> with the body {name} or {}, no
\* jwt_required on the route: the NotFound of get_or_404 is caught by the
\* except clause, which answers 500.
UpdateCompany ==
    /\ \E t \in Presented, company_id \in 1..MaxCompanies,
          name \in {"Renamed", Missing} :
        LET found == {c \in companies : c.id = company_id} IN
        IF found = {}
        THEN /\ Reply("update_company", t, 500, {})
             /\ UNCHANGED companies
        ELSE LET company == CHOOSE c \in found : TRUE
                 updated == IF name = Missing THEN company
                            ELSE [company EXCEPT !.name = name]
             IN /\ companies' = (companies \ {company}) \cup {updated}
                /\ Reply("update_company", t, 200, {updated})
    /\ UNCHANGED <<users, sequences, tokens, revoked_tokens>>
    /\ UNCHANGED <<analyzer_vars, cli, pending>>

\* A company that is never found to have users.
users_count_none(company_id) == 0

\* company.users.count()
users_count(company_id) ==
    Cardinality({u \in users : u.company_id = company_id})

\* DELETE /api/companies/<company_id>, no jwt_required on the route
DeleteCompany ==
    /\ \E t \in Presented, company_id \in 1..MaxCompanies :
        LET found == {c \in companies : c.id = company_id}
            path == [NoRequest EXCEPT !.company_id = company_id]
        IN
        IF found = {}
        THEN /\ ReplyTo("delete_company", t, path, 500, {})
             /\ UNCHANGED companies
        ELSE IF users_count(company_id) > 0
        THEN /\ ReplyTo("delete_company", t, path, 409, {})
             /\ UNCHANGED companies
        ELSE /\ companies' = companies \ found
             /\ ReplyTo("delete_company", t, path, 200, {})
    /\ UNCHANGED <<users, sequences, tokens, revoked_tokens>>
    /\ UNCHANGED <<analyzer_vars, cli, pending>>

\* GET /api/users/
ListUsers ==
    /\ \E t \in Presented :
        IF jwt_required(t, "access") # 200
        THEN Reply("list_users", t, jwt_required(t, "access"), {})
        ELSE Reply("list_users", t, 200,
                   IF t.role = "admin" THEN users
                   ELSE IF t.role = "company_admin"
                   THEN {u \in users : u.company_id = t.company_id}
                   ELSE user_lookup(t))
    /\ UNCHANGED <<companies, users, sequences, tokens, revoked_tokens>>
    /\ UNCHANGED <<analyzer_vars, cli, pending>>

\* POST /api/users/ with the body {email, password, first_name, last_name,
\* company_id} and, unless role is Missing, role; email is Missing for a
\* body without a required key.  Each key of the body is chosen where the
\* handler first reads it.
CreateUser ==
    /\ \E t \in Presented :
        IF jwt_required(t, "access") # 200
        THEN /\ Reply("create_user", t, jwt_required(t, "access"), {})
             /\ UNCHANGED <<users, sequences>>
        ELSE IF ~require_admin_or_company_admin(t)
        THEN /\ Reply("create_user", t, 403, {})
             /\ UNCHANGED <<users, sequences>>
        ELSE
        \E email \in NewEmails \cup {Missing} :
        LET data1 == [NoRequest EXCEPT !.email = email] IN
        IF email = Missing
        THEN /\ Reply("create_user", t, 400, {})
             /\ UNCHANGED <<users, sequences>>
        ELSE IF \E u \in users : u.email = email
        THEN /\ ReplyTo("create_user", t, data1, 409, {})
             /\ UNCHANGED <<users, sequences>>
        ELSE
        \E company_id \in 1..MaxCompanies :
        LET data2 == [data1 EXCEPT !.company_id = company_id] IN
        IF ~\E c \in companies : c.id = company_id
        THEN /\ ReplyTo("create_user", t, data2, 404, {})
             /\ UNCHANGED <<users, sequences>>
        ELSE IF t.role = "company_admin" /\ company_id # t.company_id
        THEN /\ ReplyTo("create_user", t, data2, 403, {})
             /\ UNCHANGED <<users, sequences>>
        ELSE
        \E role \in Roles \cup {Missing, "invalid"} :
        LET data == [data2 EXCEPT !.role = role] IN
        IF role = "invalid"
        THEN /\ ReplyTo("create_user", t, data, 400, {})
             /\ UNCHANGED <<users, sequences>>
        ELSE IF t.role = "company_admin" /\ role = "admin"
        THEN /\ ReplyTo("create_user", t, data, 403, {})
             /\ UNCHANGED <<users, sequences>>
        ELSE LET user == [id |-> sequences.users + 1,
                          email |-> email,
                          role |-> IF role = Missing THEN "user" ELSE role,
                          company_id |-> company_id]
             IN /\ sequences.users < MaxUsers
                /\ users' = users \cup {user}
                /\ sequences' = [sequences EXCEPT !.users = @ + 1]
                /\ ReplyTo("create_user", t, data, 201, {user})
    /\ UNCHANGED <<companies, tokens, revoked_tokens>>
    /\ UNCHANGED <<analyzer_vars, cli, pending>>

\* The requests the server works on at the same time.
MaxPending == 2

\* A worker is free to take the request.
FreeWorker == BagCardinality(pending) < MaxPending

\* POST /api/companies up to the existence check (lines 44-60): a request
\* that passes it is held by its worker until the commit.
CreateCompanyCheck ==
    /\ \E t \in Presented :
        IF jwt_required(t, "access") # 200
        THEN /\ Reply("create_company", t, jwt_required(t, "access"), {})
             /\ UNCHANGED pending
        ELSE IF ~require_admin(t)
        THEN /\ Reply("create_company", t, 403, {})
             /\ UNCHANGED pending
        ELSE
        \E org_number \in OrgNumbers \cup {Missing} :
        LET data == [NoRequest EXCEPT !.org_number = org_number] IN
        IF org_number = Missing
        THEN /\ Reply("create_company", t, 400, {})
             /\ UNCHANGED pending
        ELSE IF \E c \in companies : c.org_number = org_number
        THEN /\ ReplyTo("create_company", t, data, 409, {})
             /\ UNCHANGED pending
        ELSE /\ FreeWorker
             /\ pending' = pending (+)
                    SetToBag({[endpoint |-> "create_company", token |-> t,
                               request |-> data]})
             /\ UNCHANGED response
    /\ UNCHANGED <<companies, users, sequences, tokens, revoked_tokens>>
    /\ UNCHANGED <<analyzer_vars, cli>>

\* db.session.add(company); db.session.commit() (lines 62-76).  The INSERT
\* takes the next id of the sequence; the unique constraint on org_number
\* makes it fail when the number has been stored since the check, and the
\* except clause rolls back and answers 500 (lines 78-81).
CreateCompanyCommit ==
    /\ \E p \in BagToSet(pending) :
        /\ p.endpoint = "create_company"
        /\ sequences.companies < MaxCompanies
        /\ sequences' = [sequences EXCEPT !.companies = @ + 1]
        /\ pending' = pending (-) SetToBag({p})
        /\ IF \E c \in companies : c.org_number = p.request.org_number
           THEN /\ ReplyTo("create_company", p.token, p.request, 500, {})
                /\ UNCHANGED companies
           ELSE LET company == [id |-> sequences.companies + 1,
                                name |-> "New Company",
                                org_number |-> p.request.org_number]
                IN /\ companies' = companies \cup {company}
                   /\ ReplyTo("create_company", p.token, p.request, 201,
                              {company})
    /\ UNCHANGED <<users, tokens, revoked_tokens>>
    /\ UNCHANGED <<analyzer_vars, cli>>

\* POST /api/users up to the role validation (lines 67-106)
CreateUserCheck ==
    /\ \E t \in Presented :
        IF jwt_required(t, "access") # 200
        THEN /\ Reply("create_user", t, jwt_required(t, "access"), {})
             /\ UNCHANGED pending
        ELSE IF ~require_admin_or_company_admin(t)
        THEN /\ Reply("create_user", t, 403, {})
             /\ UNCHANGED pending
        ELSE
        \E email \in NewEmails \cup {Missing} :
        LET data1 == [NoRequest EXCEPT !.email = email] IN
        IF email = Missing
        THEN /\ Reply("create_user", t, 400, {})
             /\ UNCHANGED pending
        ELSE IF \E u \in users : u.email = email
        THEN /\ ReplyTo("create_user", t, data1, 409, {})
             /\ UNCHANGED pending
        ELSE
        \E company_id \in 1..MaxCompanies :
        LET data2 == [data1 EXCEPT !.company_id = company_id] IN
        IF ~\E c \in companies : c.id = company_id
        THEN /\ ReplyTo("create_user", t, data2, 404, {})
             /\ UNCHANGED pending
        ELSE IF t.role = "company_admin" /\ company_id # t.company_id
        THEN /\ ReplyTo("create_user", t, data2, 403, {})
             /\ UNCHANGED pending
        ELSE
        \E role \in Roles \cup {Missing, "invalid"} :
        LET data == [data2 EXCEPT !.role = role] IN
        IF role = "invalid"
        THEN /\ ReplyTo("create_user", t, data, 400, {})
             /\ UNCHANGED pending
        ELSE IF t.role = "company_admin" /\ role = "admin"
        THEN /\ ReplyTo("create_user", t, data, 403, {})
             /\ UNCHANGED pending
        ELSE /\ FreeWorker
             /\ pending' = pending (+)
                    SetToBag({[endpoint |-> "create_user", token |-> t,
                               request |-> data]})
             /\ UNCHANGED response
    /\ UNCHANGED <<companies, users, sequences, tokens, revoked_tokens>>
    /\ UNCHANGED <<analyzer_vars, cli>>

\* db.session.add(user); db.session.commit() (lines 108-122).  The unique
\* constraint on email makes the INSERT fail when the address has been
\* stored since the check, and the except clause rolls back and answers
\* 500 (lines 124-127).
CreateUserCommit ==
    /\ \E p \in BagToSet(pending) :
        /\ p.endpoint = "create_user"
        /\ sequences.users < MaxUsers
        /\ sequences' = [sequences EXCEPT !.users = @ + 1]
        /\ pending' = pending (-) SetToBag({p})
        /\ IF \E u \in users : u.email = p.request.email
           THEN /\ ReplyTo("create_user", p.token, p.request, 500, {})
                /\ UNCHANGED users
           ELSE LET user == [id |-> sequences.users + 1,
                             email |-> p.request.email,
                             role |-> IF p.request.role = Missing
                                      THEN "user" ELSE p.request.role,
                             company_id |-> p.request.company_id]
                IN /\ users' = users \cup {user}
                   /\ ReplyTo("create_user", p.token, p.request, 201, {user})
    /\ UNCHANGED <<companies, tokens, revoked_tokens>>
    /\ UNCHANGED <<analyzer_vars, cli>>

\* can_access_user(target_user_id) for the caller of token t
can_access_user(t, target_user_id) ==
    IF t.role = "admin" THEN TRUE
    ELSE IF t.role = "company_admin"
    THEN \E u \in users : u.id = target_user_id /\ u.company_id = t.company_id
    ELSE target_user_id = t.sub

\* GET /api/users/<user_id>
GetUser ==
    /\ \E t \in Presented, user_id \in 1..MaxUsers :
        LET found == {u \in users : u.id = user_id} IN
        IF jwt_required(t, "access") # 200
        THEN Reply("get_user", t, jwt_required(t, "access"), {})
        ELSE IF ~can_access_user(t, user_id)
        THEN Reply("get_user", t, 403, {})
        ELSE IF found = {}
        THEN Reply("get_user", t, 404, {})
        ELSE Reply("get_user", t, 200, found)
    /\ UNCHANGED <<companies, users, sequences, tokens, revoked_tokens>>
    /\ UNCHANGED <<analyzer_vars, cli, pending>>

\* The application on empty tables, before any request.
InitEmptyApi ==
    /\ companies = {}
    /\ users = {}
    /\ sequences = [companies |-> 0, users |-> 0]
    /\ tokens = {}
    /\ revoked_tokens = {}
    /\ response = NoResponse
    /\ pending = EmptyBag

\* The application on the seeded tables, before any request.
InitSeededApi ==
    /\ companies = SeedCompanies
    /\ users = SeedUsers
    /\ sequences = [companies |-> 2, users |-> 3]
    /\ tokens = {}
    /\ revoked_tokens = {}
    /\ response = NoResponse
    /\ pending = EmptyBag

NextApi ==
    \/ Login
    \/ Refresh
    \/ Logout
    \/ Profile
    \/ VerifyToken
    \/ ListCompanies
    \/ CreateCompany
    \/ GetCompany
    \/ UpdateCompany
    \/ DeleteCompany
    \/ ListUsers
    \/ CreateUser
    \/ GetUser

(***************************************************************************)
(* Specifications.                                                         *)
(***************************************************************************)
\* After analyzer = EmissionsAnalyzer(caller_df): self.df is a copy.
Init ==
    /\ caller_df \in SeriesInputs \cup Examples
    /\ InitResults
    /\ InitCli
    /\ InitEmptyApi

Spec == Init /\ [][Next]_vars

\* The trend metrics and the forecast alone, on the metrics example too
\* (its year-over-year variance does not fit the model's integers).
InitTrend ==
    /\ caller_df \in SeriesInputs \cup Examples \cup {MetricsExample}
    /\ InitResults
    /\ InitCli
    /\ InitEmptyApi

SpecTrend == InitTrend /\ [][NextTrend]_vars

\* The analyzer on series with duplicate years.
InitDuplicates ==
    /\ caller_df \in DuplicateYearInputs \cup DuplicateExamples
    /\ InitResults
    /\ InitCli
    /\ InitEmptyApi

SpecDuplicates == InitDuplicates /\ [][Next]_vars

\* The convenience function alone.
SpecBundle == Init /\ [][NextBundle]_vars

\* A change of -33.3 per cent over three years: -11.11 per cent a year.
PrecisionExample == Frame(<<<<2001, Q(3)>>, <<2004, Q(2)>>>>)

\* The pattern profile and the summary report alone.
InitPatterns ==
    /\ caller_df \in SeriesInputs \cup Examples \cup {PrecisionExample}
    /\ InitResults
    /\ InitCli
    /\ InitEmptyApi

NextPatterns ==
    \/ IdentifyPatterns
    \/ GenerateSummaryReport

SpecPatterns == InitPatterns /\ [][NextPatterns]_vars

\* The command line on each emissions file.
InitCliFiles ==
    /\ caller_df = <<>>
    /\ InitResults
    /\ cli \in {NoRun(file) : file \in DataFiles}
    /\ InitEmptyApi

SpecCli == InitCliFiles /\ [][NextCli]_vars

\* The web API alone, no analysis running.
InitApi ==
    /\ caller_df = <<>>
    /\ InitResults
    /\ InitCli
    /\ InitSeededApi

SpecApi == InitApi /\ [][NextApi]_vars

\* The seeded users, the third of them with the given role.
SeedUsersWith(role) ==
    {IF u.id = 3 THEN [u EXCEPT !.role = role] ELSE u : u \in SeedUsers}

\* The create and delete routes alone, every seeded user logged in: the
\* admin, the company_admin and a third caller who is a user or a viewer.
InitCrud ==
    /\ caller_df = <<>>
    /\ InitResults
    /\ InitCli
    /\ companies = SeedCompanies
    /\ users \in {SeedUsersWith("user"), SeedUsersWith("viewer")}
    /\ sequences = [companies |-> 2, users |-> 3]
    /\ tokens = {create_access_token(u.id, u) : u \in users}
    /\ revoked_tokens = {}
    /\ response = NoResponse
    /\ pending = EmptyBag

NextCrud ==
    \/ CreateCompany
    \/ CreateUser
    \/ DeleteCompany

SpecCrud == InitCrud /\ [][NextCrud]_vars

\* The two create routes served by several workers: the steps of one
\* request up to its checks, and its commit, interleave with the steps of
\* the others.
NextInterleaved ==
    \/ CreateCompanyCheck
    \/ CreateCompanyCommit
    \/ CreateUserCheck
    \/ CreateUserCommit

\* The tables after the first company and its admin have been added and
\* one more insert into users has been rolled back, the admin logged in.
InitInterleaved ==
    /\ caller_df = <<>>
    /\ InitResults
    /\ InitCli
    /\ companies = {c \in SeedCompanies : c.id = 1}
    /\ users = {u \in SeedUsers : u.id = 1}
    /\ sequences = [companies |-> 1, users |-> 2]
    /\ tokens = {create_access_token(u.id, u) : u \in users}
    /\ revoked_tokens = {}
    /\ response = NoResponse
    /\ pending = EmptyBag

SpecInterleaved == InitInterleaved /\ [][NextInterleaved]_vars

(***************************************************************************)
(* Properties.  Their helpers read the caller's series directly, in whole  *)
(* numbers, and use none of the analyzer's operators.                      *)
(***************************************************************************)
RowsOf(df) == {df[i] : i \in 1..Len(df)}

\* The rows of df by ascending year (years are unique).
Ascending(df) ==
    [i \in 1..Len(df) |->
        CHOOSE r \in RowsOf(df) :
            Cardinality({q \in RowsOf(df) : q.year < r.year}) = i - 1]

\* The same series handed over already sorted.
PreSorted(df) ==
    [i \in 1..Len(df) |->
        Row(i - 1, Ascending(df)[i].year, Ascending(df)[i].emissions_MtCO2e)]

\* a < b for finite values
ValueLess(a, b) == a[1] * b[2] < b[1] * a[2]

\* x = a - b for finite values
IsDifference(x, a, b) ==
    /\ IsFinite(x)
    /\ x[1] * a[2] * b[2] = (a[1] * b[2] - b[1] * a[2]) * x[2]

\* p = x / b * 100 for finite x and b # 0
IsPercentageOf(p, x, b) ==
    /\ IsFinite(p)
    /\ p[1] * b[1] * x[2] = 100 * x[1] * b[2] * p[2]

\* (l - b) / b * 100 < t for finite l and b > 0
PctBelow(l, b, t) == 100 * (l[1] * b[2] - b[1] * l[2]) < t * b[1] * l[2]

SetMax(S) == CHOOSE m \in S : \A x \in S : x <= m

\* Length of the longest run of TRUE in a sequence of booleans.
LongestRun(f) ==
    SetMax({0} \cup {n \in 1..Len(f) :
                        \E i \in 1..(Len(f) - n + 1) :
                            \A k \in i..(i + n - 1) : f[k]})

\* Step i of the ascending series goes down (up): its change is negative
\* (positive, +inf after a zero value included).
Declines(df) ==
    [i \in 1..(Len(df) - 1) |->
        ValueLess(Ascending(df)[i + 1].emissions_MtCO2e,
                  Ascending(df)[i].emissions_MtCO2e)]

Increases(df) ==
    [i \in 1..(Len(df) - 1) |->
        ValueLess(Ascending(df)[i].emissions_MtCO2e,
                  Ascending(df)[i + 1].emissions_MtCO2e)]

\* No year-over-year change is zero (or undefined, 0 after 0).
NoFlatStep(df) ==
    \A i \in 1..(Len(df) - 1) :
        Ascending(df)[i + 1].emissions_MtCO2e # Ascending(df)[i].emissions_MtCO2e

\* Some change is exactly zero and every change is defined and finite.
HasZeroChange(df) ==
    /\ \A i \in 1..Len(df) : df[i].emissions_MtCO2e # Q(0)
    /\ ~NoFlatStep(df)

\* The points of df inside the forecast window, by ascending year.
WindowRows(df) ==
    LET asc == Ascending(df)
        from == CHOOSE i \in 1..Len(asc) :
                    /\ asc[i].year >= asc[Len(asc)].year - 10
                    /\ \A j \in 1..(i - 1) : asc[j].year < asc[Len(asc)].year - 10
    IN SubSeq(asc, from, Len(asc))

RECURSIVE SumInts(_)
SumInts(s) == IF s = <<>> THEN 0 ELSE s[1] + SumInts(Tail(s))

\* The least-squares line through two or more window points, evaluated at
\* year t, is below zero.  Years are counted from the window's first year
\* and values in halves; with n points, D = n Sxx - Sx^2 > 0 and
\* n D line(t) = Sy D + (n Sxy - Sx Sy)(n t - Sx).
LineBelowZero(df, t) ==
    LET w == WindowRows(df)
        n == Len(w)
        x == [i \in 1..n |-> w[i].year - w[1].year]
        y == [i \in 1..n |->
                 (2 * w[i].emissions_MtCO2e[1]) \div w[i].emissions_MtCO2e[2]]
        sx == SumInts(x)
        sy == SumInts(y)
        sxx == SumInts([i \in 1..n |-> x[i] * x[i]])
        sxy == SumInts([i \in 1..n |-> x[i] * y[i]])
    IN /\ n >= 2
       /\ sy * (n * sxx - sx * sx)
              + (n * sxy - sx * sy) * (n * (t - w[1].year) - sx) < 0

HasReturned(r) == r.status = "returned"

\* C1: for a non-empty series of n points and a horizon k >= 1 the forecast
\* has n + k rows: first the n input points, tagged historical, unchanged
\* and by ascending year, then k rows tagged forecast for the years
\* max_year + 1 .. max_year + k in that order.
C1_ForecastRows ==
    (forecast # NotCalled /\ Len(caller_df) >= 1 /\ forecast.years_ahead >= 1) =>
        LET n == Len(caller_df)
            k == forecast.years_ahead
            asc == Ascending(caller_df)
        IN /\ HasReturned(forecast.result)
           /\ Len(forecast.result.value) = n + k
           /\ \A i \in 1..n :
                forecast.result.value[i] =
                    [year |-> asc[i].year,
                     emissions_MtCO2e |-> asc[i].emissions_MtCO2e,
                     type |-> "historical"]
           /\ \A j \in 1..k :
                /\ forecast.result.value[n + j].type = "forecast"
                /\ forecast.result.value[n + j].year = asc[n].year + j

C1_Witness ==
    /\ caller_df = ShuffledExample
    /\ forecast # NotCalled
    /\ forecast.years_ahead = 2
    /\ HasReturned(forecast.result)
    /\ forecast.result.value[5].year = 2015

\* C2: every row tagged forecast has a value >= 0, and the value is exactly
\* 0 where the fitted line is below zero.
C2_ForecastNonNegative ==
    (forecast # NotCalled /\ HasReturned(forecast.result)) =>
        \A i \in 1..Len(forecast.result.value) :
            LET row == forecast.result.value[i] IN
            row.type = "forecast" =>
                /\ IsFinite(row.emissions_MtCO2e)
                /\ row.emissions_MtCO2e[1] >= 0
                /\ LineBelowZero(caller_df, row.year) =>
                       row.emissions_MtCO2e = Q(0)

C2_Witness ==
    /\ caller_df = ClampExample
    /\ forecast # NotCalled
    /\ forecast.years_ahead = 2
    /\ LineBelowZero(caller_df, 2024)
    /\ forecast.result.value[5] =
           [year |-> 2024, emissions_MtCO2e |-> Q(0), type |-> "forecast"]

\* C3: whatever the order of the rows handed to the analyzer, each of the
\* four operations returns what it returns on the same rows handed over
\* sorted ascending by year.
C3_SortIndependent ==
    /\ metrics # NotCalled =>
           metrics = calculate_trend_metrics(PreSorted(caller_df))
    /\ patterns # NotCalled =>
           patterns = identify_patterns(PreSorted(caller_df))
    /\ forecast # NotCalled =>
           forecast.result =
               simple_forecast(PreSorted(caller_df), forecast.years_ahead)
    /\ report # NotCalled =>
           report = generate_summary_report(PreSorted(caller_df))

C3_Witness ==
    /\ caller_df = ShuffledExample
    /\ caller_df # PreSorted(caller_df)
    /\ HasReturned(metrics)
    /\ HasReturned(patterns)
    /\ forecast # NotCalled
    /\ HasReturned(report)

\* C4: a call of calculate_trend_metrics, identify_patterns or
\* simple_forecast (same horizon) that follows an earlier call, with any
\* other calls in between, returns what the earlier call returned.
C4_Idempotent ==
    [][/\ metrics # NotCalled => metrics' = metrics
       /\ patterns # NotCalled => patterns' = patterns
       /\ (forecast # NotCalled /\ forecast'.years_ahead = forecast.years_ahead)
              => forecast' = forecast]_vars

C4_Witness ==
    /\ recalled
    /\ Len(caller_df) >= 3
    /\ HasReturned(metrics)
    /\ HasReturned(patterns)
    /\ forecast # NotCalled
    /\ forecast.years_ahead >= 1

\* C5: baseline is the point of the smallest year, latest the point of the
\* largest year, total_change.absolute = latest - baseline and, for a
\* baseline value other than 0, total_change.percentage = total_change /
\* baseline * 100; the example series gives 1990/51.0, 2023/45.0, -6.0 and
\* the peak 2000/55.0.
C5_BaselineLatestChange ==
    HasReturned(metrics) =>
        LET asc == Ascending(caller_df)
            first == asc[1]
            last == asc[Len(asc)]
            m == metrics.value
        IN /\ m.baseline = [year |-> first.year,
                            emissions_mt |-> first.emissions_MtCO2e]
           /\ m.latest = [year |-> last.year,
                          emissions_mt |-> last.emissions_MtCO2e]
           /\ IsDifference(m.total_change.absolute_mt,
                           last.emissions_MtCO2e, first.emissions_MtCO2e)
           /\ first.emissions_MtCO2e # Q(0) =>
                  IsPercentageOf(m.total_change.percentage,
                                 m.total_change.absolute_mt,
                                 first.emissions_MtCO2e)
           /\ caller_df = MetricsExample =>
                  /\ m.baseline = [year |-> 1990, emissions_mt |-> Q(51)]
                  /\ m.latest = [year |-> 2023, emissions_mt |-> Q(45)]
                  /\ m.total_change.absolute_mt = Q(-6)
                  /\ m.peak = [year |-> 2000, emissions_mt |-> Q(55)]

C5_Witness ==
    /\ caller_df = MetricsExample
    /\ HasReturned(metrics)
    /\ metrics.value.total_change.percentage = <<-200, 17>>

\* C6: the peak is a point of the series whose value is the maximum, and of
\* the points that hold the maximum it is the one of the earliest year, in
\* whatever order the rows were given.
C6_PeakEarliestMaximum ==
    HasReturned(metrics) =>
        LET peak == metrics.value.peak IN
        /\ \E r \in RowsOf(caller_df) :
               r.year = peak.year /\ r.emissions_MtCO2e = peak.emissions_mt
        /\ \A r \in RowsOf(caller_df) :
               /\ ~ValueLess(peak.emissions_mt, r.emissions_MtCO2e)
               /\ r.emissions_MtCO2e = peak.emissions_mt => peak.year <= r.year

C6_Witness ==
    /\ caller_df = ShuffledExample
    /\ HasReturned(metrics)
    /\ metrics.value.peak = [year |-> 2002, emissions_mt |-> Q(3)]

\* C7: when no year-over-year change is zero, longest_decline_years is the
\* length of the longest run of consecutive negative changes and
\* longest_increase_years that of the longest run of positive changes; the
\* sign pattern + - - - + - gives 3 and 1.
C7_StreakLengths ==
    (HasReturned(patterns) /\ NoFlatStep(caller_df)) =>
        /\ patterns.value.streaks.longest_decline_years =
               LongestRun(Declines(caller_df))
        /\ patterns.value.streaks.longest_increase_years =
               LongestRun(Increases(caller_df))

C7_Witness ==
    /\ caller_df = StreakExample
    /\ NoFlatStep(caller_df)
    /\ HasReturned(patterns)
    /\ patterns.value.streaks =
           [longest_decline_years |-> 3, longest_increase_years |-> 1]

\* C8: a change of exactly zero ends the current decline streak and the
\* current increase streak: with a zero change in the series the longest
\* streaks are still the longest runs of consecutive negative (positive)
\* changes, so declines on both sides of a zero change are not added up.
C8_ZeroChangeResets ==
    (HasReturned(patterns) /\ HasZeroChange(caller_df)) =>
        /\ patterns.value.streaks.longest_decline_years =
               LongestRun(Declines(caller_df))
        /\ patterns.value.streaks.longest_increase_years =
               LongestRun(Increases(caller_df))

\* C9: the report carries exactly one of the three assessment labels, and
\* with p the total change in per cent: p < -10 gives Strong Progress,
\* -10 <= p < 0 gives Moderate Progress, p >= 0 (+inf included) gives
\* Limited Progress.
C9_AssessmentThresholds ==
    HasReturned(report) =>
        LET asc == Ascending(caller_df)
            b == asc[1].emissions_MtCO2e
            l == asc[Len(asc)].emissions_MtCO2e
            label == report.value.assessment
        IN /\ label \in {"Strong Progress", "Moderate Progress",
                         "Limited Progress"}
           /\ (b # Q(0) /\ PctBelow(l, b, -10)) => label = "Strong Progress"
           /\ (b # Q(0) /\ ~PctBelow(l, b, -10) /\ PctBelow(l, b, 0)) =>
                  label = "Moderate Progress"
           /\ (b # Q(0) /\ ~PctBelow(l, b, 0)) => label = "Limited Progress"
           /\ (b = Q(0) /\ l # Q(0)) => label = "Limited Progress"

C9_Witness ==
    /\ caller_df = BoundaryExample
    /\ HasReturned(report)
    /\ report.value.total_change_pct = [places |-> 1, digits |-> -100]
    /\ report.value.assessment = "Moderate Progress"

\* C10: on a series of exactly one point calculate_trend_metrics fails
\* with InsufficientHistory and returns no metrics.
C10_SinglePointFails ==
    (Len(caller_df) = 1 /\ metrics # NotCalled) =>
        metrics = Raised("InsufficientHistory")

\* Some point of value 0 is followed, by year, by a point of another value.
ZeroThenNonzero(df) ==
    \E i \in 1..(Len(df) - 1) :
        /\ Ascending(df)[i].emissions_MtCO2e = Q(0)
        /\ Ascending(df)[i + 1].emissions_MtCO2e # Q(0)

\* C11: on a series in which a point of value 0 is followed by a nonzero
\* point identify_patterns fails with DivisionByZero and returns no profile.
C11_ZeroStepFails ==
    (patterns # NotCalled /\ ZeroThenNonzero(caller_df)) =>
        patterns = Raised("DivisionByZero")

\* C12: on a series whose earliest point has the value 0
\* calculate_trend_metrics fails with an error and returns no result.
C12_ZeroBaselineFails ==
    (metrics # NotCalled /\ Len(caller_df) >= 1
        /\ Ascending(caller_df)[1].emissions_MtCO2e = Q(0)) =>
        metrics.status = "raised"

\* C13: on a series of zero points calculate_trend_metrics,
\* identify_patterns and simple_forecast each fail with an error.
C13_EmptySeriesFails ==
    Len(caller_df) = 0 =>
        /\ metrics # NotCalled => metrics.status = "raised"
        /\ patterns # NotCalled => patterns.status = "raised"
        /\ forecast # NotCalled => forecast.result.status = "raised"

\* C14: simple_forecast with years_ahead <= 0 (on a series it can fit)
\* fails with InvalidForecastHorizon and returns no rows.
C14_NonPositiveHorizonFails ==
    (forecast # NotCalled /\ forecast.years_ahead <= 0 /\ Len(caller_df) >= 2) =>
        forecast.result = Raised("InvalidForecastHorizon")

\* C15: simple_forecast fails with an error when fewer than 2 points of a
\* non-empty series have year >= max_year - 10.
C15_ShortWindowFails ==
    (forecast # NotCalled /\ Len(caller_df) >= 1 /\ forecast.years_ahead >= 1
        /\ Len(WindowRows(caller_df)) < 2) =>
        forecast.result.status = "raised"

HasDuplicateYears(df) ==
    \E i, j \in 1..Len(df) : i # j /\ df[i].year = df[j].year

\* C16: a series in which two rows carry the same year is rejected with a
\* MalformedInput error; no operation returns metrics, patterns or a
\* forecast computed from it.
C16_DuplicateYearsRejected ==
    HasDuplicateYears(caller_df) =>
        /\ metrics # NotCalled => metrics = Raised("MalformedInput")
        /\ patterns # NotCalled => patterns = Raised("MalformedInput")
        /\ forecast # NotCalled => forecast.result = Raised("MalformedInput")

\* C17: the bundle analyze_emissions_data returns has exactly the keys
\* metrics, patterns, forecast and summary_report; every row of its forecast
\* is tagged 'historical' or 'forecast', the rows tagged 'historical' are
\* the n input points and the rows tagged 'forecast' are the 5 years after
\* the latest year.
C17_BundleKeysAndTags ==
    HasReturned(bundle) =>
        LET rows == bundle.value.forecast
            historical == {i \in DOMAIN rows : rows[i].type = "historical"}
            projected == {i \in DOMAIN rows : rows[i].type = "forecast"}
            last == Ascending(caller_df)[Len(caller_df)].year
        IN /\ DOMAIN bundle.value =
                  {"metrics", "patterns", "forecast", "summary_report"}
           /\ \A i \in DOMAIN rows : rows[i].type \in {"historical", "forecast"}
           /\ Cardinality(historical) = Len(caller_df)
           /\ {<<rows[i].year, rows[i].emissions_MtCO2e>> : i \in historical}
                  = {<<r.year, r.emissions_MtCO2e>> : r \in RowsOf(caller_df)}
           /\ Cardinality(projected) = 5
           /\ {rows[i].year : i \in projected} = (last + 1)..(last + 5)

C17_Witness ==
    /\ caller_df = ShuffledExample
    /\ HasReturned(bundle)
    /\ Len(bundle.value.forecast) = 8
    /\ bundle.value.forecast[8].year = 2018

CompanyUserEndpoints ==
    {"list_companies", "create_company", "get_company", "update_company",
     "delete_company", "list_users", "create_user", "get_user"}

\* C18: a request to an endpoint of the companies or users API that carries
\* no token is answered 401 and is handed no company or user record.
C18_TokenRequired ==
    (response.endpoint \in CompanyUserEndpoints /\ response.presented = 0) =>
        /\ response.status = 401
        /\ response.body = {}

JwtProtectedEndpoints ==
    {"profile", "verify", "list_companies", "create_company", "list_users",
     "create_user", "get_user"}

\* C19: once logout has succeeded for an access token, every later request
\* that presents this token to a jwt-protected endpoint is rejected.
C19_LogoutRevokes ==
    (response.endpoint \in JwtProtectedEndpoints
        /\ response.presented \in revoked_tokens) =>
        response.status = 401

\* C20: recent_trend.absolute = latest value - value of the earliest point
\* with year >= latest.year - 10, its percentage is that change over that
\* point's value (for a value other than 0); when every point lies within
\* 10 years of the latest year, recent_trend equals total_change in the
\* absolute figure and, for a baseline value other than 0, the percentage.
C20_RecentTrendWindow ==
    HasReturned(metrics) =>
        LET asc == Ascending(caller_df)
            window == WindowRows(caller_df)
            first == window[1].emissions_MtCO2e
            last == asc[Len(asc)].emissions_MtCO2e
            m == metrics.value
        IN /\ IsDifference(m.recent_trend.absolute_mt, last, first)
           /\ first # Q(0) =>
                  IsPercentageOf(m.recent_trend.percentage,
                                 m.recent_trend.absolute_mt, first)
           /\ Len(window) = Len(asc) =>
                  /\ m.recent_trend.absolute_mt = m.total_change.absolute_mt
                  /\ first # Q(0) =>
                         m.recent_trend.percentage = m.total_change.percentage

C20_Witness ==
    /\ caller_df = ShuffledExample
    /\ HasReturned(metrics)
    /\ metrics.value.recent_trend.absolute_mt = Q(2)
    /\ metrics.value.recent_trend.percentage = Q(200)
    /\ metrics.value.total_change.absolute_mt = Q(0)

\* x = a / n for finite a and n # 0
IsQuotientBy(x, a, n) ==
    /\ IsFinite(x)
    /\ x[1] * a[2] * n = a[1] * x[2]

\* C21: average_annual.absolute = total_change / years_span and
\* average_annual.percentage = total_change percentage / years_span, where
\* years_span = latest.year - baseline.year, the calendar distance and not
\* the number of points (for a span other than 0, the percentage for a
\* baseline value other than 0).
C21_AverageAnnualBySpan ==
    HasReturned(metrics) =>
        LET asc == Ascending(caller_df)
            first == asc[1]
            last == asc[Len(asc)]
            span == last.year - first.year
            change == <<last.emissions_MtCO2e[1] * first.emissions_MtCO2e[2]
                            - first.emissions_MtCO2e[1] * last.emissions_MtCO2e[2],
                        last.emissions_MtCO2e[2] * first.emissions_MtCO2e[2]>>
            m == metrics.value
        IN /\ m.total_change.years_span = span
           /\ span # 0 =>
                  /\ IsQuotientBy(m.average_annual.absolute_mt, change, span)
                  /\ first.emissions_MtCO2e # Q(0) =>
                         /\ IsPercentageOf(m.total_change.percentage, change,
                                           first.emissions_MtCO2e)
                         /\ IsQuotientBy(m.average_annual.percentage,
                                         m.total_change.percentage, span)

C21_Witness ==
    /\ caller_df = MetricsExample
    /\ HasReturned(metrics)
    /\ metrics.value.total_change.years_span = 33
    /\ metrics.value.average_annual.absolute_mt = <<-2, 11>>
    /\ metrics.value.average_annual.percentage = <<-200, 561>>

\* The last min(3, n - 1) year-over-year changes of the ascending series,
\* each as the pair <<value - previous, previous>> over a common denominator.
LastChanges(df) ==
    LET asc == Ascending(df)
        n == Len(asc)
        k == IF n - 1 < 3 THEN (IF n = 0 THEN 0 ELSE n - 1) ELSE 3
    IN [j \in 1..k |->
           LET cur == asc[n - k + j].emissions_MtCO2e
               prev == asc[n - k + j - 1].emissions_MtCO2e
           IN <<cur[1] * prev[2] - prev[1] * cur[2], prev[1] * cur[2]>>]

\* Every one of these changes is defined: the value before it is not 0.
LastChangesDefined(df) ==
    \A j \in 1..Len(LastChanges(df)) : LastChanges(df)[j][2] > 0

\* The sum of fractions <<a, b>>, b > 0, as one fraction not reduced.
RECURSIVE FractionSum(_)
FractionSum(s) ==
    IF s = <<>> THEN <<0, 1>>
    ELSE LET rest == FractionSum(Tail(s))
         IN <<s[1][1] * rest[2] + rest[1] * s[1][2], s[1][2] * rest[2]>>

\* C22: recent_trend.is_declining is true exactly when the mean of the last
\* 3 year-over-year changes (of all of them for fewer than 4 points) is
\* strictly negative, a mean of exactly 0 giving false; the summary prints
\* 'Declining' exactly in that case, 'Stable/Increasing' otherwise.
C22_DecliningFlag ==
    LastChangesDefined(caller_df) =>
        /\ HasReturned(patterns) =>
               patterns.value.recent_trend.is_declining
                   = (FractionSum(LastChanges(caller_df))[1] < 0)
        /\ HasReturned(report) =>
               report.value.recent_trend
                   = IF FractionSum(LastChanges(caller_df))[1] < 0
                     THEN "Declining" ELSE "Stable/Increasing"

C22_Witness ==
    /\ caller_df = StreakExample
    /\ FractionSum(LastChanges(caller_df))[1] = 0
    /\ HasReturned(patterns)
    /\ patterns.value.recent_trend.is_declining = FALSE
    /\ HasReturned(report)
    /\ report.value.recent_trend = "Stable/Increasing"

IsForecastRow(r) == r.type = "forecast"

\* The places of df whose point is older than the forecast window.
OlderPlaces(df) ==
    {i \in 1..Len(df) : df[i].year < Ascending(df)[Len(df)].year - 10}

\* The series that agree with df on every point of the window and differ
\* at most in the values of the older points.
OlderVariants(df) ==
    {[i \in 1..Len(df) |-> IF i \in OlderPlaces(df)
                           THEN Row(df[i].idx, df[i].year, v[i])
                           ELSE df[i]] :
        v \in [OlderPlaces(df) -> Values]}

\* C23: the forecast depends only on the points with year >= max_year - 10:
\* a series that agrees on these points and differs in the values of older
\* points gets the same forecast rows for the same horizon.
C23_ForecastWindowOnly ==
    (forecast # NotCalled /\ HasReturned(forecast.result)) =>
        \A g \in OlderVariants(caller_df) :
            /\ HasReturned(simple_forecast(g, forecast.years_ahead))
            /\ SelectSeq(simple_forecast(g, forecast.years_ahead).value,
                         IsForecastRow)
                   = SelectSeq(forecast.result.value, IsForecastRow)

C23_Witness ==
    /\ caller_df = ShuffledExample
    /\ Cardinality(OlderVariants(caller_df)) > 1
    /\ forecast # NotCalled
    /\ forecast.years_ahead = 2
    /\ HasReturned(forecast.result)
    /\ forecast.result.value[4].emissions_MtCO2e = Q(5)
    /\ forecast.result.value[5].emissions_MtCO2e = Q(7)

\* C24: for a window of two or more points every forecast value is
\* max(0, slope * year + intercept) of the least-squares line through the
\* window's points: with the years counted from the window's first year
\* and the values in halves, 2 n D line(t) = Sy D + (n Sxy - Sx Sy)(n t - Sx)
\* for D = n Sxx - Sx^2; on collinear points the rows continue their line.
C24_LeastSquaresLine ==
    (forecast # NotCalled /\ HasReturned(forecast.result)
        /\ Len(WindowRows(caller_df)) >= 2) =>
        LET w == WindowRows(caller_df)
            n == Len(w)
            x == [i \in 1..n |-> w[i].year - w[1].year]
            y == [i \in 1..n |->
                     (2 * w[i].emissions_MtCO2e[1]) \div w[i].emissions_MtCO2e[2]]
            sx == SumInts(x)
            sy == SumInts(y)
            sxx == SumInts([i \in 1..n |-> x[i] * x[i]])
            sxy == SumInts([i \in 1..n |-> x[i] * y[i]])
            d == n * sxx - sx * sx
            line(t) == sy * d + (n * sxy - sx * sy) * (n * (t - w[1].year) - sx)
            rows == SelectSeq(forecast.result.value, IsForecastRow)
        IN \A i \in 1..Len(rows) :
               LET v == rows[i].emissions_MtCO2e IN
               /\ IsFinite(v)
               /\ IF line(rows[i].year) > 0
                  THEN v[1] * 2 * n * d = line(rows[i].year) * v[2]
                  ELSE v = Q(0)

C24_Witness ==
    /\ caller_df = BoundaryExample
    /\ forecast # NotCalled
    /\ forecast.years_ahead = 2
    /\ HasReturned(forecast.result)
    /\ forecast.result.value[3] =
           [year |-> 2022, emissions_MtCO2e |-> Q(8), type |-> "forecast"]
    /\ forecast.result.value[4] =
           [year |-> 2023, emissions_MtCO2e |-> Q(7), type |-> "forecast"]

ReportFigures ==
    {"baseline_emissions", "latest_emissions", "peak_emissions",
     "total_change_pct", "total_change_mt", "average_annual_pct",
     "recent_trend_pct", "volatility"}

\* C25 as stated: every megatonne and percentage figure of the report is
\* formatted with exactly one decimal place.
C25_OneDecimalEverywhere ==
    HasReturned(report) =>
        \A f \in ReportFigures : report.value[f].places = 1

\* f prints n / d (d > 0) with the given number of decimals: its digits
\* are an integer nearest to n / d * 10^places.
PrintsRounded(f, n, d, places) ==
    /\ f.places = places
    /\ "digits" \in DOMAIN f
    /\ 2 * Abs(f.digits * d - n * Pow10(places)) <= d

\* C25 amended: every megatonne and percentage figure of the report is
\* formatted with one decimal place, except the average annual change,
\* which is formatted with two; baseline, latest and average annual change
\* print the series' figures rounded to that many decimals.
C25_DecimalPlaces ==
    HasReturned(report) =>
        LET asc == Ascending(caller_df)
            first == asc[1].emissions_MtCO2e
            last == asc[Len(asc)].emissions_MtCO2e
            span == asc[Len(asc)].year - asc[1].year
        IN /\ \A f \in ReportFigures \ {"average_annual_pct"} :
                  report.value[f].places = 1
           /\ report.value.average_annual_pct.places = 2
           /\ PrintsRounded(report.value.baseline_emissions,
                            first[1], first[2], 1)
           /\ PrintsRounded(report.value.latest_emissions, last[1], last[2], 1)
           /\ (first[1] > 0 /\ span > 0) =>
                  PrintsRounded(report.value.average_annual_pct,
                                100 * (last[1] * first[2] - first[1] * last[2]),
                                last[2] * first[1] * span, 2)

C25_Witness ==
    /\ caller_df = PrecisionExample
    /\ HasReturned(report)
    /\ report.value.total_change_pct = [places |-> 1, digits |-> -333]
    /\ report.value.average_annual_pct = [places |-> 2, digits |-> -1111]

\* C26: run_analysis.main and main.run_analysis always hand back an exit
\* status and let no exception escape; the status is 1 when the emissions
\* file is missing and when analyze_emissions_data raised, and 0 only when
\* the analysis completed.
C26_ExitStatus ==
    cli.entry # "none" =>
        /\ HasReturned(cli.exit_status)
        /\ cli.exit_status.value \in {0, 1}
        /\ ~cli.data_path.exists =>
               cli.analysis = NotCalled /\ cli.exit_status.value = 1
        /\ cli.analysis.status = "raised" => cli.exit_status.value = 1
        /\ cli.exit_status.value = 0 =>
               /\ cli.data_path.exists
               /\ HasReturned(cli.analysis)
               /\ Len(cli.data_path.df) >= 1

C26_Witness ==
    /\ cli.entry = "run_analysis.main"
    /\ cli.data_path.exists
    /\ cli.analysis.status = "raised"
    /\ cli.exit_status = Returned(1)

\* C30: no call of calculate_trend_metrics, identify_patterns,
\* simple_forecast or generate_summary_report changes the frame stored in
\* the analyzer (rows, row order, columns) or the frame the caller passed
\* to the constructor.
C30_SeriesUnchanged ==
    [][self_df' = self_df /\ caller_df' = caller_df]_vars

C30_Witness ==
    /\ caller_df = ShuffledExample
    /\ self_df = ShuffledExample
    /\ HasReturned(metrics)
    /\ HasReturned(patterns)
    /\ forecast # NotCalled
    /\ HasReturned(forecast.result)
    /\ Len(forecast.result.value) > Len(self_df)
    /\ HasReturned(report)

\* The users whose token the answered request presented.
Callers(jti) == {u \in users : \E t \in tokens : t.jti = jti /\ u.id = t.sub}

\* C27: every user that a POST /api/users call of a company_admin creates
\* belongs to the caller's own company and is not an admin; a call of a
\* user or a viewer is answered 403 and leaves users and companies as they
\* were.
C27_TenantIsolation ==
    [][response'.endpoint = "create_user" =>
          \A caller \in Callers(response'.presented) :
              /\ caller.role = "company_admin" =>
                     \A u \in users' \ users :
                         /\ u.company_id = caller.company_id
                         /\ u.role # "admin"
              /\ caller.role \in {"user", "viewer"} =>
                     /\ response'.status = 403
                     /\ users' = users
                     /\ companies' = companies]_vars

C27_Witness ==
    /\ response.endpoint = "create_user"
    /\ response.status = 201
    /\ \E caller \in Callers(response.presented) :
           /\ caller.role = "company_admin"
           /\ \E u \in response.body :
                  /\ u \in users
                  /\ u.id = 4
                  /\ u.company_id = caller.company_id
                  /\ u.role = "company_admin"

\* C29: every stored user's company_id names a stored company; a
\* delete_company call for a company that has a user is answered 409 and
\* deletes nothing; a create_user call whose company does not exist is
\* answered 404 and creates nothing.
C29_ReferentialIntegrity ==
    /\ [](\A u \in users : \E c \in companies : c.id = u.company_id)
    /\ [][/\ (/\ response'.endpoint = "delete_company"
              /\ \E u \in users :
                     u.company_id = response'.request.company_id)
             => /\ response'.status = 409
                /\ companies' = companies
                /\ users' = users
          /\ (/\ response'.endpoint = "create_user"
              /\ response'.request.company_id # 0
              /\ ~\E c \in companies :
                     c.id = response'.request.company_id)
             => /\ response'.status = 404
                /\ users' = users
                /\ companies' = companies]_vars

C29_Witness ==
    /\ response.endpoint = "delete_company"
    /\ response.status = 409
    /\ response.request.company_id = 2
    /\ \E c \in companies : c.id = 2
    /\ \E u \in users : u.company_id = 2 /\ u.id = 4
    /\ ~\E c \in companies : c.id = 3
    /\ sequences.companies = 3

\* C28: no two companies share an org_number and no two users share an
\* email; a create_company or create_user call that repeats a stored
\* org_number or email is answered 409 and leaves companies and users as
\* they were, also when the calls interleave.
C28_DuplicateAnswered409 ==
    /\ [](/\ \A c1, c2 \in companies :
                 c1.org_number = c2.org_number => c1 = c2
          /\ \A u1, u2 \in users : u1.email = u2.email => u1 = u2)
    /\ [][(/\ response' # response
           /\ \/ /\ response'.endpoint = "create_company"
                 /\ \E c \in companies :
                        c.org_number = response'.request.org_number
              \/ /\ response'.endpoint = "create_user"
                 /\ \E u \in users : u.email = response'.request.email)
          => /\ response'.status = 409
             /\ companies' = companies
             /\ users' = users]_vars
====
